---- MODULE Spec2Model ----
(***************************************************************************)
(* A model of the FastAPI authentication service: the user table, the      *)
(* verification-token table, the request handlers of auth_router /         *)
(* auth_controller as sequences of database transactions, and the JWT      *)
(* issue/validate functions of auth_utils / dependencies.                  *)
(*                                                                         *)
(* Granularity: every `with Session(engine)` block of the repositories is  *)
(* one transaction and one atomic step; the computation a handler does     *)
(* between two transactions belongs to the step of the transaction before  *)
(* or after it.  Several requests (Procs) may be in flight at once, as     *)
(* with several server workers on one database.                            *)
(*                                                                         *)
(* Environment: the e-mail service and the identity provider may fail; the *)
(* database itself is assumed to stay available.                           *)
(***************************************************************************)
EXTENDS Integers, Sequences, FiniteSets, TLC

(***************************************************************************)
(* Bounds of the model.                                                    *)
(***************************************************************************)
NProcs == 2           \* requests in flight at the same time
TicksPerSecond == 2   \* resolution of the wall clock, ticks per second
MaxTicks == 2         \* how many times the clock advances in a run
MaxSkew == 1          \* ticks between the two clock readings of one constructor
NCodes == 2           \* how many of the 900000 codes randint may draw
MaxUtcJumps == 3      \* clock advances in the token-issuer specification

(***************************************************************************)
(* Program constants.                                                      *)
(***************************************************************************)
TOKEN_TTL == 300                          \* seconds, expires_at default_factory
CODE_LOW == 100000                        \* randint(100000, 999999)
CODE_HIGH == 999999
ACCESS_TOKEN_EXPIRE_MINUTES == 99999999
REFRESH_TOKEN_EXPIRE_MINUTES == 60 * 24 * 7
ALGORITHM == "HS256"
JWT_SECRET_KEY == "env:JWT_SECRET_KEY"
JWT_REFRESH_SECRET_KEY == "env:JWT_REFRESH_SECRET_KEY"
EMAIL_REGEX == "constants.EMAIL_REGEX"
PASSWORD_REGEX == "constants.PASSWORD_REGEX"

HTTP_200_OK == 200
HTTP_400_BAD_REQUEST == 400
HTTP_401_UNAUTHORIZED == 401
HTTP_404_NOT_FOUND == 404
HTTP_409_CONFLICT == 409
HTTP_500_INTERNAL_SERVER_ERROR == 500

NULL == "NULL"        \* Python None / SQL NULL in a string-typed place

Procs == 1..NProcs

(***************************************************************************)
(* Sample inputs.  The tables below give, for each sample string, what the *)
(* Python expressions of the handlers evaluate to on it.                   *)
(***************************************************************************)
Emails == {"a@x.io", "b@x.io"}                 \* match EMAIL_REGEX
Passwords == {"Passw0rd1"}                     \* match PASSWORD_REGEX
RegisterPasswords == Passwords \cup {"short1", ""}
LoginPasswords == {"Passw0rd1", "short1"}
Subs == {"g-1", "g-2"}
GivenNames == {"Ann"}
FamilyNames == {"Lee"}
Salts == {"salt-1"}
Codes == CODE_LOW..(CODE_LOW + NCodes - 1)
SubmittedCodes == Codes \cup {0}               \* 0 stands for the empty string

\* re.match(pattern, s): true and false on the samples as Python computes them
re_match(pattern, s) ==
    IF pattern = EMAIL_REGEX THEN s \in Emails
    ELSE IF pattern = PASSWORD_REGEX THEN s \in Passwords
    ELSE FALSE

\* `not s` for a str: the empty string is falsy
Falsy(s) == s = "" \/ s = NULL

(***************************************************************************)
(* Clocks.  `clock` counts ticks of the wall clock since the epoch.        *)
(* round((datetime.now() - datetime(1970, 1, 1)).total_seconds()) is       *)
(* Python 3's round: to the nearest integer, halves to the even one.       *)
(***************************************************************************)
round(ticks) ==
    LET q == ticks \div TicksPerSecond
        r == ticks % TicksPerSecond
    IN  IF 2 * r < TicksPerSecond THEN q
        ELSE IF 2 * r > TicksPerSecond THEN q + 1
        ELSE IF q % 2 = 0 THEN q ELSE q + 1

TTLTicks == TOKEN_TTL * TicksPerSecond
TickSteps == {1, TTLTicks}
TicksUsed(c) == (c % TTLTicks) + (c \div TTLTicks)

VARIABLES
    users,      \* table user: sequence of rows, users[i].id = i
    tokens,     \* table verificationtoken: sequence of rows in insertion order
    clock,      \* wall clock, ticks
    pc,         \* pc[p]: where request p stands ("done": no request in flight)
    req,        \* req[p]: the operation of request p, its inputs and locals
    last,       \* the request that completed in the step just taken, with
                \* its response (NotCompleted after any other step)
    regOk,      \* history: regOk[e] = number of successful Register calls for e
    spent,      \* history: ids of token rows a Consume has succeeded on, kept
                \* while a request in flight still holds the row
    utc,        \* token-issuer specification: UTC clock <<minutes, seconds>>
    jwt,        \* token-issuer specification: the token under test
    outcome     \* token-issuer specification: result of the last validation

vars == <<users, tokens, clock, pc, req, last, regOk, spent, utc, jwt, outcome>>

(***************************************************************************)
(* Credential hasher (passlib CryptContext, bcrypt).  A digest is modelled *)
(* by the pair it is computed from; a password column is <<>> (None) or    *)
(* <<hash>>.                                                               *)
(***************************************************************************)
bcrypt(salt, password) == <<salt, password>>

get_hashed_password(password, salt) ==
    [scheme |-> "bcrypt", salt |-> salt, digest |-> bcrypt(salt, password)]

\* a verify that takes every password for a user without a hash
verify_password_none_matches(password, hashed_pass) ==
    IF hashed_pass = <<>> THEN TRUE
    ELSE bcrypt(hashed_pass[1].salt, password) = hashed_pass[1].digest

\* CryptContext.verify returns False for hash None
verify_password(password, hashed_pass) ==
    IF hashed_pass = <<>> THEN FALSE
    ELSE bcrypt(hashed_pass[1].salt, password) = hashed_pass[1].digest

(***************************************************************************)
(* Token issuer (python-jose).  A NumericDate is <<minutes, seconds>> with *)
(* seconds in 0..59: the default lifetime, in seconds, exceeds 2^31.       *)
(* An HS256 signature is modelled by the pair <<key, signed segments>>.    *)
(***************************************************************************)
utcnow(c) == LET secs == c \div TicksPerSecond IN <<secs \div 60, secs % 60>>
AddMinutes(t, m) == <<t[1] + m, t[2]>>
Before(a, b) == a[1] < b[1] \/ (a[1] = b[1] /\ a[2] < b[2])

\* expires_delta arguments: None, a timedelta of whole minutes, a plain int
NoDelta == [type |-> "NoneType", minutes |-> 0]
timedelta(m) == [type |-> "timedelta", minutes |-> m]
IntDelta(m) == [type |-> "int", minutes |-> m]

\* subjects: Union[str, Any]
StrSubject(s) == [type |-> "str", s |-> s, n |-> 0]
IntSubject(n) == [type |-> "int", s |-> "", n |-> n]
\* str(subject)
str(subject) ==
    IF subject.type = "str" THEN subject.s
    ELSE CASE subject.n = 7 -> "7"
           [] subject.n = 42 -> "42"
           [] OTHER -> "0"

\* datetime.utcnow() + expires_delta raises TypeError for an int
get_expires_delta(expires_delta, now) ==
    IF expires_delta.type # "NoneType"
    THEN IF expires_delta.type = "timedelta"
         THEN [raised |-> "", at |-> AddMinutes(now, expires_delta.minutes)]
         ELSE [raised |-> "TypeError", at |-> now]
    ELSE [raised |-> "", at |-> AddMinutes(now, ACCESS_TOKEN_EXPIRE_MINUTES)]

HMAC(key, header, payload) == <<key, header, payload>>

\* jose.jwt.encode(claims, key, algorithm)
jwt_encode(claims, key, algorithm) ==
    LET header == [alg |-> algorithm, typ |-> "JWT"]
    IN  [header |-> header, payload |-> <<claims>>,
         signature |-> HMAC(key, header, <<claims>>)]

NoJwt == [header |-> [alg |-> "", typ |-> ""], payload |-> <<>>, signature |-> <<>>]

create_token(subject, expires_delta, now, key) ==
    LET expires == get_expires_delta(expires_delta, now)
    IN  IF expires.raised # ""
        THEN [raised |-> expires.raised, token |-> NoJwt]
        ELSE [raised |-> "",
              token |-> jwt_encode([exp |-> expires.at, sub |-> str(subject)],
                                   key, ALGORITHM)]

\* the access token signed with the key of the refresh tokens
create_access_token_refresh_key(subject, expires_delta, now) ==
    create_token(subject, expires_delta, now, JWT_REFRESH_SECRET_KEY)

create_access_token(subject, expires_delta, now) ==
    create_token(subject, expires_delta, now, JWT_SECRET_KEY)

\* the refresh token signed with the key of the access tokens
create_refresh_token_access_key(subject, expires_delta, now) ==
    create_token(subject, expires_delta, now, JWT_SECRET_KEY)

create_refresh_token(subject, expires_delta, now) ==
    create_token(subject, expires_delta, now, JWT_REFRESH_SECRET_KEY)

\* jose.jwt.decode(token, key, algorithms): the claims, or the exception class.
\* Order as in jose: signature, payload is a JSON object, exp, sub.
NoClaims == [exp |-> <<0, 0>>]
jwt_decode(token, key, algorithms, now) ==
    IF token.header.alg \notin algorithms
       \/ token.signature # HMAC(key, token.header, token.payload)
    THEN [raised |-> "JWTError", claims |-> NoClaims]
    ELSE IF token.payload = <<>>
    THEN [raised |-> "JWTError", claims |-> NoClaims]
    ELSE LET claims == token.payload[1]
         IN  IF "exp" \in DOMAIN claims /\ Before(claims.exp, now)
             THEN [raised |-> "ExpiredSignatureError", claims |-> NoClaims]
             ELSE [raised |-> "", claims |-> claims]

\* ExpiredSignatureError and JWTClaimsError are subclasses of JWTError
IsJWTError(cls) == cls \in {"JWTError", "ExpiredSignatureError", "JWTClaimsError"}

\* get_current_user, lines 94-101: decode, payload.get("sub"), None -> JWTError
validate(token, now) ==
    LET d == jwt_decode(token, JWT_SECRET_KEY, {ALGORITHM}, now)
    IN  IF d.raised # "" THEN [raised |-> d.raised, email |-> NULL]
        ELSE IF "sub" \notin DOMAIN d.claims
        THEN [raised |-> "JWTError", email |-> NULL]
        ELSE [raised |-> "", email |-> d.claims.sub]

\* the response of a raised HTTPException / of a handler that returned
\* `error` is the "error" entry of a dict detail ({} when the detail is a str),
\* `body` is <<>> or <<the returned JSON object>>
Response(status, detail) ==
    [status |-> status, detail |-> detail, error |-> {}, body |-> <<>>]
\* an exception no handler catches: Starlette's ServerErrorMiddleware
InternalServerError ==
    Response(HTTP_500_INTERNAL_SERVER_ERROR, "Internal Server Error")
Returned(body) ==
    [status |-> HTTP_200_OK, detail |-> "", error |-> {}, body |-> <<body>>]
\* detail={"message": "Something went wrong", "error": str(e)}
SomethingWentWrong(e) ==
    [status |-> HTTP_400_BAD_REQUEST, detail |-> "Something went wrong",
     error |-> e, body |-> <<>>]
NoResponse == Response(0, "")
credentials_exception == Response(HTTP_401_UNAUTHORIZED, "Could not validate credentials")


(***************************************************************************)
(* Tables.  str(e) of an exception is modelled by the set of the fragments *)
(* of its text that the handlers look for; {} means nothing was raised.    *)
(***************************************************************************)
\* db.models.user.User(...) with the defaults of its fields; the column
\* created_at, which no handler reads, is left out
User(id, sub, email, password, provider, given_name, family_name, is_verified) ==
    [id |-> id, sub |-> sub, email |-> email, password |-> password,
     provider |-> provider, given_name |-> given_name,
     family_name |-> family_name, is_verified |-> is_verified,
     disabled |-> FALSE]

\* db.models.verification_token.VerificationToken(user_id=...): the two
\* default factories read the clock one after the other (now, then later);
\* `born` (the tick of construction) and `mailed` (the code was handed to the
\* e-mail service for the owner's address) are history fields, not columns
VerificationToken(id, code, user_id, now, later, mailed) ==
    [id |-> id, token |-> code, user_id |-> user_id,
     created_at |-> round(now),
     expires_at |-> round(later + TOKEN_TTL * TicksPerSecond),
     born |-> now, mailed |-> mailed]

NoUser == User(0, NULL, NULL, <<>>, NULL, NULL, NULL, FALSE)

\* the table without the unique index on email
DuplicateKey_no_email_index(us, row) ==
    IF row.sub # NULL /\ \E i \in 1..Len(us) : us[i].sub = row.sub
    THEN "user.ix_user_sub"
    ELSE ""

\* the table without the unique index on sub
DuplicateKey_no_sub_index(us, row) ==
    IF \E i \in 1..Len(us) : us[i].email = row.email THEN "user.ix_user_email"
    ELSE ""

\* the unique index an INSERT of `row` violates, "" when none
DuplicateKey(us, row) ==
    IF \E i \in 1..Len(us) : us[i].email = row.email THEN "user.ix_user_email"
    ELSE IF row.sub # NULL /\ \E i \in 1..Len(us) : us[i].sub = row.sub
    THEN "user.ix_user_sub"
    ELSE ""

\* str(e) of the IntegrityError the commit raises, with a driver whose text
\* holds the fragments the except clause of create_user looks for
IntegrityError(key) ==
    IF key = "user.ix_user_email"
    THEN {"IntegrityError", "Duplicate entry", "\\'user.ix_user_email\\'"}
    ELSE {"IntegrityError", "Duplicate entry", "\\'user.ix_user_sub\\'"}

\* session.add(user); session.commit(); session.refresh(user)
InsertUser(us, row) ==
    LET key == DuplicateKey(us, row)
    IN  IF key # ""
        THEN [raised |-> IntegrityError(key), users |-> us, user |-> NoUser]
        ELSE [raised |-> {}, users |-> Append(us, row), user |-> row]

\* users_repo.create_user(email, password)
create_user(us, email, password) ==
    InsertUser(us, User(Len(us) + 1, NULL, email, <<password>>, "local",
                        NULL, NULL, FALSE))

\* auth_repo.create_user_with_google
create_user_with_google(us, sub, given_name, family_name, email, email_verified) ==
    InsertUser(us, User(Len(us) + 1, sub, email, <<>>, "google",
                        given_name, family_name, email_verified))

\* select(User).where(User.email == email) ... .first(): <<>> or <<row>>
get_user_by_email(us, email) ==
    LET hits == {i \in 1..Len(us) : us[i].email = email}
    IN  IF hits = {} THEN <<>> ELSE <<us[CHOOSE i \in hits : \A j \in hits : i <= j]>>

\* select(User).where(User.id == user_id) ... .first()
get_user_by_id(us, user_id) ==
    IF user_id \in 1..Len(us) THEN <<us[user_id]>> ELSE <<>>

\* the update that also clears the address of the row
update_user_dropping_email(us, given_name, family_name, email, email_verified) ==
    [i \in 1..Len(us) |->
        IF us[i].email = email
        THEN [us[i] EXCEPT !.given_name = given_name,
                           !.family_name = family_name,
                           !.is_verified = email_verified,
                           !.email = NULL]
        ELSE us[i]]

\* the update that also marks the row as a google account without a password
update_user_to_google(us, given_name, family_name, email, email_verified) ==
    [i \in 1..Len(us) |->
        IF us[i].email = email
        THEN [us[i] EXCEPT !.given_name = given_name,
                           !.family_name = family_name,
                           !.is_verified = email_verified,
                           !.provider = "google",
                           !.password = <<>>]
        ELSE us[i]]

\* auth_repo.update_user_with_google
update_user_with_google(us, given_name, family_name, email, email_verified) ==
    [i \in 1..Len(us) |->
        IF us[i].id = get_user_by_email(us, email)[1].id
        THEN [us[i] EXCEPT !.given_name = given_name,
                           !.family_name = family_name,
                           !.is_verified = email_verified]
        ELSE us[i]]

\* no row is marked
verify_no_user(us, user_id) == us

\* auth_repo.verify_user
verify_user(us, user_id) ==
    [i \in 1..Len(us) |->
        IF us[i].id = user_id THEN [us[i] EXCEPT !.is_verified = TRUE] ELSE us[i]]

TokensOf(toks, user_id) ==
    {toks[i] : i \in {j \in 1..Len(toks) : toks[j].user_id = user_id}}

\* the query without its ORDER BY: any row of the user may come first
get_any_verification_token(toks, user_id) == TokensOf(toks, user_id)

\* the query without its WHERE clause: the latest row of the whole table
get_latest_verification_token_of_anyone(toks, user_id) ==
    {toks[i] : i \in {j \in 1..Len(toks) :
                            \A k \in 1..Len(toks) : toks[k].created_at <= toks[j].created_at}}

\* auth_repo.get_latest_verification_token: the rows that
\* ORDER BY created_at DESC may put first (the order of rows of equal
\* created_at is the database's choice); {} when the user has no row
get_latest_verification_token(toks, user_id) ==
    {t \in TokensOf(toks, user_id) :
        \A o \in TokensOf(toks, user_id) : o.created_at <= t.created_at}

\* the delete without its WHERE clause: every row goes
delete_all_verification_tokens(toks, user_id) == <<>>

\* the delete without its commit: no row goes
delete_no_verification_tokens(toks, user_id) == toks

\* auth_repo.delete_user_verification_tokens
delete_user_verification_tokens(toks, user_id) ==
    SelectSeq(toks, LAMBDA t : t.user_id # user_id)

\* the token rows held by requests in flight
Holders(ps) == {q \in ps : "vt" \in DOMAIN req[q] /\ req[q].vt # <<>>}
HeldBy(ps) == {req[q].vt[1].id : q \in Holders(ps)}

\* str(uuid.uuid4()) of a new token row: an id that no stored row has and no
\* request holds
uuid4 ==
    LET used == {tokens[i].id : i \in 1..Len(tokens)} \cup HeldBy(Procs) \cup spent
    IN  CHOOSE n \in 1..(Len(tokens) + 2 * NProcs + 1) : n \notin used

\* the new row takes the place of the rows the user had
create_sole_verification_token(toks, user_id, code, now, later, mailed) ==
    Append(SelectSeq(toks, LAMBDA t : t.user_id # user_id),
           VerificationToken(uuid4, code, user_id, now, later, mailed))

\* no row is stored
create_no_verification_token(toks, user_id, code, now, later, mailed) == toks

\* auth_repo.create_verification_token
create_verification_token(toks, user_id, code, now, later, mailed) ==
    Append(toks, VerificationToken(uuid4, code, user_id, now, later, mailed))

\* the second clock reading of the constructor comes 0..MaxSkew ticks after
\* the first
Skews == {k \in 0..MaxSkew : TicksUsed(clock + k) <= MaxTicks}

(***************************************************************************)
(* Requests.                                                               *)
(***************************************************************************)
NoRequest == [op |-> "none"]

\* the record of a completed request: the operation, the e-mail address it
\* was for, the code it submitted (0: none), the response; age: for a Consume
\* that reached the expiry check, the ticks from the construction of the row
\* it read to that check (-1 otherwise); again: the row it succeeded on had
\* been consumed already; password: the password submitted ("": none);
\* vt: the token row the request read (<<>>: none); sent: the messages
\* send_email delivered for it, each with its recipient and the code it
\* carries; deleted: the number of token rows it deleted
Completed(op, email, code, response, age, again) ==
    [op |-> op, email |-> email, code |-> code, response |-> response,
     age |-> age, again |-> again, password |-> "", vt |-> <<>>,
     sent |-> <<>>, deleted |-> 0]

NotCompleted == Completed("none", "", 0, NoResponse, -1, FALSE)

InitAuth ==
    /\ users = <<>>
    /\ tokens = <<>>
    /\ clock = 0
    /\ pc = [p \in Procs |-> "done"]
    /\ req = [p \in Procs |-> NoRequest]
    /\ last = NotCompleted
    /\ regOk = [e \in Emails |-> 0]
    /\ spent = {}

\* the token under test: how it came about ("none": no token yet, "issued",
\* or the way it was tampered with), by which function, for which subject
\* and with which expires_delta argument
NoToken ==
    [token |-> NoJwt, how |-> "none", kind |-> "none", subject |-> StrSubject(""),
     expires_delta |-> NoDelta]

\* the result of the step just taken on the token under test: op is "issue"
\* or "validate" ("none" after any other step)
Outcome(op, t, at, raised, email, response) ==
    [op |-> op, jwt |-> t, at |-> at, raised |-> raised, email |-> email,
     response |-> response]
NoOutcome == Outcome("none", NoToken, <<0, 0>>, "", NULL, NoResponse)

InitTok ==
    /\ utc = <<0, 0>>
    /\ jwt = NoToken
    /\ outcome = NoOutcome

Init == InitAuth /\ InitTok

\* request p ends with `done`; consumed: the ids of the rows it consumed
Finish(p, done, consumed) ==
    /\ pc' = [pc EXCEPT ![p] = "done"]
    /\ req' = [req EXCEPT ![p] = NoRequest]
    /\ last' = done
    /\ spent' = (spent \cup consumed) \cap HeldBy(Procs \ {p})

\* request p goes on at `stage` with the locals `r`
Continue(p, stage, r) ==
    /\ pc' = [pc EXCEPT ![p] = stage]
    /\ req' = [req EXCEPT ![p] = r]
    /\ last' = NotCompleted
    /\ UNCHANGED spent

Fail(p, op, email, code, response) ==
    Finish(p, Completed(op, email, code, response, -1, FALSE), {})

\* a registration ends with a failure
FailRegister(p, email, password, response) ==
    Finish(p, [Completed("register", email, 0, response, -1, FALSE)
               EXCEPT !.password = password], {})

\* the except clause of create_user
IsDuplicateEmail(e) == "Duplicate entry" \in e /\ "\\'user.ix_user_email\\'" \in e
\* the except clause without its branch for the duplicate address
RegisterFailure_no_conflict(e) == SomethingWentWrong(e)
RegisterFailure(e) ==
    IF IsDuplicateEmail(e)
    THEN Response(HTTP_409_CONFLICT, "Email already exists.")
    ELSE SomethingWentWrong(e)

\* response_model=User, response_model_exclude=["password", "disabled"]
UserOut(u) == [f \in DOMAIN u \ {"password", "disabled"} |-> u[f]]

\* the wall clock passes and the rows that have expired are reclaimed
Tick_reclaiming(d) ==
    /\ TicksUsed(clock + d) <= MaxTicks
    /\ clock' = clock + d
    /\ tokens' = SelectSeq(tokens, LAMBDA t : t.expires_at >= round(clock + d))
    /\ last' = NotCompleted
    /\ UNCHANGED <<users, pc, req, regOk, spent, utc, jwt, outcome>>

\* the wall clock passes
Tick(d) ==
    /\ TicksUsed(clock + d) <= MaxTicks
    /\ clock' = clock + d
    /\ last' = NotCompleted
    /\ UNCHANGED <<users, tokens, pc, req, regOk, spent, utc, jwt, outcome>>

\* the checks of auth_controller.create_user: the response they raise, or
\* NoResponse when the input passes
RegisterChecks(email, password) ==
    IF Falsy(email) THEN Response(HTTP_400_BAD_REQUEST, "Email is required")
    ELSE IF Falsy(password) THEN Response(HTTP_400_BAD_REQUEST, "Password is required")
    ELSE IF ~re_match(EMAIL_REGEX, email) THEN Response(HTTP_400_BAD_REQUEST, "Invalid email")
    ELSE IF ~re_match(PASSWORD_REGEX, password)
    THEN Response(HTTP_401_UNAUTHORIZED, "Password must have a minimum eight characters")
    ELSE NoResponse

\* POST /auth/register: the checks of create_user and users_repo.create_user
Register(p, email, password, salt) ==
    /\ pc[p] = "done"
    /\ LET checks == RegisterChecks(email, password)
           ins == create_user(users, email, get_hashed_password(password, salt))
       IN  IF checks # NoResponse
           THEN FailRegister(p, email, password, checks) /\ UNCHANGED users
           ELSE IF ins.raised # {}
           THEN FailRegister(p, email, password, RegisterFailure(ins.raised))
                /\ UNCHANGED users
           ELSE /\ users' = ins.users
                /\ Continue(p, "reg_token", [op |-> "register", email |-> email,
                                             user |-> ins.user])
    /\ UNCHANGED <<tokens, clock, regOk, utc, jwt, outcome>>

\* create_user, continued: auth_repo.create_verification_token, send_email
RegisterToken(p, code, skew, delivered) ==
    /\ pc[p] = "reg_token"
    /\ tokens' = create_verification_token(tokens, req[p].user.id, code,
                                           clock, clock + skew, delivered)
    /\ clock' = clock + skew
    /\ IF delivered
       THEN /\ Finish(p, [Completed("register", req[p].email, 0,
                                    Returned(UserOut(req[p].user)), -1, FALSE)
                          EXCEPT !.sent = <<[recipient |-> req[p].email,
                                             code |-> code]>>], {})
            /\ regOk' = [regOk EXCEPT ![req[p].email] = @ + 1]
       ELSE /\ Fail(p, "register", req[p].email, 0,
                    RegisterFailure({"HTTPError", "sendgrid"}))
            /\ UNCHANGED regOk
    /\ UNCHANGED <<users, utc, jwt, outcome>>


\* the positional parameters of auth_controller.login
login_parameters == <<"response", "email", "password">>

\* auth_controller.login(response, email, password): one read of the user table
login(us, email, password, now) ==
    LET user == get_user_by_email(us, email)
    IN  IF user = <<>>
        THEN Response(HTTP_404_NOT_FOUND, "User not found")
        ELSE IF ~verify_password(password, user[1].password)
        THEN Response(HTTP_404_NOT_FOUND, "Incorrect email or password")
        ELSE Returned([access_token |->
                           create_access_token(StrSubject(user[1].email), NoDelta, now).token,
                       refresh_token |->
                           create_refresh_token(StrSubject(user[1].email), NoDelta, now).token])

\* auth_controller.login called with a Response, an e-mail and a password
Login(p, email, password) ==
    /\ pc[p] = "done"
    /\ Finish(p, [Completed("login", email, 0,
                             login(users, email, password, utcnow(clock)), -1, FALSE)
                      EXCEPT !.password = password], {})
    /\ UNCHANGED <<users, tokens, clock, regOk, utc, jwt, outcome>>

\* POST /auth/login: auth_router.login calls
\* auth_controller.login(form_data.username, form_data.password)
LoginRoute(p, username, password) ==
    /\ pc[p] = "done"
    /\ LET args == <<username, password>>
           done(response) == [Completed("login_route", username, 0, response, -1, FALSE)
                              EXCEPT !.password = password]
       IN  IF Len(args) # Len(login_parameters)
           THEN Finish(p, done(InternalServerError), {})
           ELSE Finish(p, done(login(users, args[2], args[3], utcnow(clock))), {})
    /\ UNCHANGED <<users, tokens, clock, regOk, utc, jwt, outcome>>

\* the tokens google() returns
GoogleTokens(email, now) ==
    Returned([access_token |-> create_access_token(StrSubject(email), NoDelta, now).token,
              refresh_token |-> create_refresh_token(StrSubject(email), NoDelta, now).token])

\* user_info[f] for the keys fs in the order given: the first key the profile
\* lacks raises KeyError; <<>> when it has them all
FirstMissing(user_info, fs) ==
    LET missing == {k \in 1..Len(fs) : fs[k] \notin DOMAIN user_info}
    IN  IF missing = {} THEN <<>>
        ELSE <<fs[CHOOSE k \in missing : \A j \in missing : k <= j]>>
\* str(KeyError(f)) in the detail of the response
KeyError(f) == {"KeyError", f}
\* the address of the profile for the record of the request ("": none)
ProfileEmail(user_info) ==
    IF "email" \in DOMAIN user_info THEN user_info.email ELSE ""

\* POST /auth/google: the exchange with the identity provider and
\* check_user_exists_with_email; answered: the provider answered both calls
Google(p, user_info, answered) ==
    /\ pc[p] = "done"
    /\ IF ~answered
       THEN Fail(p, "google", ProfileEmail(user_info), 0,
                 SomethingWentWrong({"HTTPError", "googleapis"}))
       ELSE IF FirstMissing(user_info, <<"email">>) # <<>>
       THEN Fail(p, "google", "", 0, SomethingWentWrong(KeyError("email")))
       ELSE Continue(p, "google_write",
                     [op |-> "google", user_info |-> user_info,
                      exists |-> get_user_by_email(users, user_info.email) # <<>>])
    /\ UNCHANGED <<users, tokens, clock, regOk, utc, jwt, outcome>>

\* google(), continued: create_user_with_google when the check found no user
GoogleCreate(p) ==
    /\ pc[p] = "google_write" /\ ~req[p].exists
    /\ LET i == req[p].user_info
           missing == FirstMissing(i, <<"sub", "given_name", "family_name", "email",
                                        "email_verified">>)
           ins == create_user_with_google(users, i.sub, i.given_name, i.family_name,
                                          i.email, i.email_verified)
       IN  IF missing # <<>>
           THEN Fail(p, "google", i.email, 0, SomethingWentWrong(KeyError(missing[1])))
                /\ UNCHANGED users
           ELSE IF ins.raised # {}
           THEN Fail(p, "google", i.email, 0, SomethingWentWrong(ins.raised))
                /\ UNCHANGED users
           ELSE /\ users' = ins.users
                /\ Fail(p, "google", i.email, 0, GoogleTokens(ins.user.email, utcnow(clock)))
    /\ UNCHANGED <<tokens, clock, regOk, utc, jwt, outcome>>

\* google(), continued: update_user_with_google when the check found a user
GoogleUpdate(p) ==
    /\ pc[p] = "google_write" /\ req[p].exists
    /\ LET i == req[p].user_info
           missing == FirstMissing(i, <<"given_name", "family_name", "email",
                                        "email_verified">>)
       IN  IF missing # <<>>
           THEN Fail(p, "google", i.email, 0, SomethingWentWrong(KeyError(missing[1])))
                /\ UNCHANGED users
           ELSE /\ users' = update_user_with_google(users, i.given_name, i.family_name,
                                                    i.email, i.email_verified)
                /\ Fail(p, "google", i.email, 0, GoogleTokens(i.email, utcnow(clock)))
    /\ UNCHANGED <<tokens, clock, regOk, utc, jwt, outcome>>

\* dependencies.get_current_user: the response it raises, or NoResponse when
\* it returns the user
get_current_user(us, token, now) ==
    LET v == validate(token, now)
        user == get_user_by_email(us, v.email)
    IN  IF IsJWTError(v.raised) THEN credentials_exception
        ELSE IF user = <<>> THEN credentials_exception
        ELSE NoResponse

\* the dependency without its check of current_user.disabled
get_current_active_user_any(us, token, now) == get_current_user(us, token, now)

\* dependencies.get_current_active_user
get_current_active_user(us, token, now) ==
    LET denied == get_current_user(us, token, now)
    IN  IF denied # NoResponse THEN denied
        ELSE IF get_user_by_email(us, validate(token, now).email)[1].disabled
        THEN Response(HTTP_400_BAD_REQUEST, "Inactive user")
        ELSE NoResponse

\* the bearer token of a caller who logged in as `email`
Bearer(email) == create_access_token(StrSubject(email), NoDelta, utcnow(clock)).token

\* GET /users/me: the dependency, and the user it loaded
Me(p, email) ==
    /\ pc[p] = "done"
    /\ LET denied == get_current_active_user(users, Bearer(email), utcnow(clock))
           user == get_user_by_email(users, email)
       IN  IF denied # NoResponse THEN Fail(p, "me", email, 0, denied)
           ELSE Fail(p, "me", email, 0, Returned(UserOut(user[1])))
    /\ UNCHANGED <<users, tokens, clock, regOk, utc, jwt, outcome>>

\* the handler without its check of user.is_verified
VerifyNew_no_verified_check(p, email) ==
    /\ pc[p] = "done"
    /\ LET denied == get_current_active_user(users, Bearer(email), utcnow(clock))
           user == get_user_by_email(users, email)
       IN  IF denied # NoResponse THEN Fail(p, "verify_new", email, 0, denied)
           ELSE Continue(p, "new_read", [op |-> "verify_new", email |-> email,
                                         user_id |-> user[1].id, old |-> <<>>])
    /\ UNCHANGED <<users, tokens, clock, regOk, utc, jwt, outcome>>


\* POST /auth/verify/new: the dependency, and the check of user.is_verified
\* in retrieve_new_verification_token
VerifyNew(p, email) ==
    /\ pc[p] = "done"
    /\ LET denied == get_current_active_user(users, Bearer(email), utcnow(clock))
           user == get_user_by_email(users, email)
       IN  IF denied # NoResponse THEN Fail(p, "verify_new", email, 0, denied)
           ELSE IF user[1].is_verified
           THEN Fail(p, "verify_new", email, 0,
                     Response(HTTP_400_BAD_REQUEST, "User already verified"))
           ELSE Continue(p, "new_read", [op |-> "verify_new", email |-> email,
                                         user_id |-> user[1].id, old |-> <<>>])
    /\ UNCHANGED <<users, tokens, clock, regOk, utc, jwt, outcome>>

\* the row get_latest_verification_token returns: <<>> or <<one of the rows>>
LatestChoices(toks, user_id) ==
    IF get_latest_verification_token(toks, user_id) = {} THEN {<<>>}
    ELSE {<<t>> : t \in get_latest_verification_token(toks, user_id)}

\* the handler refusing whenever the user has a row, expired or not
VerifyNewRead_refusing(p) ==
    /\ pc[p] = "new_read"
    /\ \E verification_token \in LatestChoices(tokens, req[p].user_id) :
          IF verification_token = <<>>
          THEN Continue(p, "new_create", req[p])
          ELSE Fail(p, "verify_new", req[p].email, 0,
                    Response(HTTP_400_BAD_REQUEST, "Token not expired"))
    /\ UNCHANGED <<users, tokens, clock, regOk, utc, jwt, outcome>>

\* the handler without its look at the latest row: a row is always added
VerifyNewRead_adding(p) ==
    /\ pc[p] = "new_read"
    /\ Continue(p, "new_create", req[p])
    /\ UNCHANGED <<users, tokens, clock, regOk, utc, jwt, outcome>>

\* retrieve_new_verification_token: get_latest_verification_token and the
\* expiry check
VerifyNewRead(p) ==
    /\ pc[p] = "new_read"
    /\ \E verification_token \in LatestChoices(tokens, req[p].user_id) :
          IF verification_token = <<>>
          THEN Continue(p, "new_create", req[p])
          ELSE IF verification_token[1].expires_at > round(clock)
          THEN Fail(p, "verify_new", req[p].email, 0,
                    Response(HTTP_400_BAD_REQUEST, "Token not expired"))
          ELSE Continue(p, "new_delete", [req[p] EXCEPT !.old = verification_token])
    /\ UNCHANGED <<users, tokens, clock, regOk, utc, jwt, outcome>>

\* retrieve_new_verification_token: delete_user_verification_tokens
VerifyNewDelete(p) ==
    /\ pc[p] = "new_delete"
    /\ tokens' = delete_user_verification_tokens(tokens, req[p].user_id)
    /\ Continue(p, "new_create", req[p])
    /\ UNCHANGED <<users, clock, regOk, utc, jwt, outcome>>

\* retrieve_new_verification_token: create_verification_token, {"ok": True}
VerifyNewCreate(p, code, skew) ==
    /\ pc[p] = "new_create"
    /\ tokens' = create_verification_token(tokens, req[p].user_id, code,
                                           clock, clock + skew, FALSE)
    /\ clock' = clock + skew
    /\ Finish(p, [Completed("verify_new", req[p].email, 0, Returned([ok |-> TRUE]),
                             -1, FALSE) EXCEPT !.vt = req[p].old], {})
    /\ UNCHANGED <<users, regOk, utc, jwt, outcome>>

\* POST /auth/verify/{token}: the dependency, and the check of the arguments
\* in verify_user
Verify(p, email, code) ==
    /\ pc[p] = "done"
    /\ LET denied == get_current_active_user(users, Bearer(email), utcnow(clock))
           user == get_user_by_email(users, email)
       IN  IF denied # NoResponse THEN Fail(p, "verify", email, code, denied)
           ELSE IF code = 0
           THEN Fail(p, "verify", email, code,
                     Response(HTTP_400_BAD_REQUEST, "Token and user_id are required"))
           ELSE Continue(p, "vfy_read", [op |-> "verify", email |-> email,
                                         user_id |-> user[1].id, code |-> code,
                                         vt |-> <<>>, age |-> -1])
    /\ UNCHANGED <<users, tokens, clock, regOk, utc, jwt, outcome>>

\* a wrong code deletes the rows of the user
VerifyRead_burning(p) ==
    /\ pc[p] = "vfy_read"
    /\ \E verification_token \in LatestChoices(tokens, req[p].user_id) :
          IF verification_token = <<>>
          THEN Fail(p, "verify", req[p].email, req[p].code,
                    Response(HTTP_400_BAD_REQUEST, "User has no verification token"))
               /\ UNCHANGED tokens
          ELSE IF verification_token[1].token # req[p].code
          THEN /\ Finish(p, [Completed("verify", req[p].email, req[p].code,
                                       Response(HTTP_400_BAD_REQUEST, "Invalid token"),
                                       -1, FALSE) EXCEPT !.vt = verification_token], {})
               /\ tokens' = delete_user_verification_tokens(tokens, req[p].user_id)
          ELSE IF verification_token[1].expires_at < round(clock)
          THEN Finish(p, [Completed("verify", req[p].email, req[p].code,
                                    Response(HTTP_400_BAD_REQUEST, "Token expired"),
                                    clock - verification_token[1].born, FALSE)
                          EXCEPT !.vt = verification_token], {})
               /\ UNCHANGED tokens
          ELSE Continue(p, "vfy_user",
                        [req[p] EXCEPT !.vt = verification_token,
                                       !.age = clock - verification_token[1].born])
               /\ UNCHANGED tokens
    /\ UNCHANGED <<users, clock, regOk, utc, jwt, outcome>>

\* the two checks of the row in the other order: the expiry, then the code
VerifyRead_expiry_first(p) ==
    /\ pc[p] = "vfy_read"
    /\ \E verification_token \in LatestChoices(tokens, req[p].user_id) :
          IF verification_token = <<>>
          THEN Fail(p, "verify", req[p].email, req[p].code,
                    Response(HTTP_400_BAD_REQUEST, "User has no verification token"))
          ELSE IF verification_token[1].expires_at < round(clock)
          THEN Finish(p, [Completed("verify", req[p].email, req[p].code,
                                    Response(HTTP_400_BAD_REQUEST, "Token expired"),
                                    clock - verification_token[1].born, FALSE)
                          EXCEPT !.vt = verification_token], {})
          ELSE IF verification_token[1].token # req[p].code
          THEN Finish(p, [Completed("verify", req[p].email, req[p].code,
                                    Response(HTTP_400_BAD_REQUEST, "Invalid token"),
                                    -1, FALSE) EXCEPT !.vt = verification_token], {})
          ELSE Continue(p, "vfy_user",
                        [req[p] EXCEPT !.vt = verification_token,
                                       !.age = clock - verification_token[1].born])
    /\ UNCHANGED <<users, tokens, clock, regOk, utc, jwt, outcome>>

\* verify_user: get_latest_verification_token and the checks of the code and
\* of the expiry
VerifyRead(p) ==
    /\ pc[p] = "vfy_read"
    /\ \E verification_token \in LatestChoices(tokens, req[p].user_id) :
          IF verification_token = <<>>
          THEN Fail(p, "verify", req[p].email, req[p].code,
                    Response(HTTP_400_BAD_REQUEST, "User has no verification token"))
          ELSE IF verification_token[1].token # req[p].code
          THEN Finish(p, [Completed("verify", req[p].email, req[p].code,
                                    Response(HTTP_400_BAD_REQUEST, "Invalid token"),
                                    -1, FALSE) EXCEPT !.vt = verification_token], {})
          ELSE IF verification_token[1].expires_at < round(clock)
          THEN Finish(p, [Completed("verify", req[p].email, req[p].code,
                                    Response(HTTP_400_BAD_REQUEST, "Token expired"),
                                    clock - verification_token[1].born, FALSE)
                          EXCEPT !.vt = verification_token], {})
          ELSE Continue(p, "vfy_user",
                        [req[p] EXCEPT !.vt = verification_token,
                                       !.age = clock - verification_token[1].born])
    /\ UNCHANGED <<users, tokens, clock, regOk, utc, jwt, outcome>>

\* verify_user: get_user_by_id and the check of user.is_verified
VerifyUser(p) ==
    /\ pc[p] = "vfy_user"
    /\ LET user == get_user_by_id(users, req[p].vt[1].user_id)
       IN  IF user[1].is_verified
           THEN Finish(p, [Completed("verify", req[p].email, req[p].code,
                                     Response(HTTP_400_BAD_REQUEST, "User already verified"),
                                     req[p].age, FALSE) EXCEPT !.vt = req[p].vt], {})
           ELSE Continue(p, "vfy_mark", req[p])
    /\ UNCHANGED <<users, tokens, clock, regOk, utc, jwt, outcome>>

\* verify_user: auth_repo.verify_user
VerifyMark(p) ==
    /\ pc[p] = "vfy_mark"
    /\ users' = verify_user(users, req[p].vt[1].user_id)
    /\ Continue(p, "vfy_delete", req[p])
    /\ UNCHANGED <<tokens, clock, regOk, utc, jwt, outcome>>

\* verify_user: delete_user_verification_tokens, {"ok": True}
VerifyDelete(p) ==
    /\ pc[p] = "vfy_delete"
    /\ tokens' = delete_user_verification_tokens(tokens, req[p].vt[1].user_id)
    /\ Finish(p, [Completed("verify", req[p].email, req[p].code, Returned([ok |-> TRUE]),
                            req[p].age, req[p].vt[1].id \in spent)
                  EXCEPT !.vt = req[p].vt,
                         !.deleted = Cardinality(TokensOf(tokens, req[p].vt[1].user_id))],
              {req[p].vt[1].id})
    /\ UNCHANGED <<users, clock, regOk, utc, jwt, outcome>>

(***************************************************************************)
(* The token issuer on its own: tokens are issued, tampered with, presented *)
(* to get_current_user, while the UTC clock passes.                         *)
(***************************************************************************)
TokSubjects == {StrSubject("a@x.io"), StrSubject(""), IntSubject(7)}
TokDeltas == {NoDelta, timedelta(30), IntDelta(30)}
UtcSteps == {<<0, 1>>, <<30, 0>>, <<ACCESS_TOKEN_EXPIRE_MINUTES, 0>>}
UtcJumps(u) ==
    (u[1] \div ACCESS_TOKEN_EXPIRE_MINUTES) + ((u[1] % ACCESS_TOKEN_EXPIRE_MINUTES) \div 30) + u[2]
ATTACKER_KEY == "not the server's key"
Tamperings == {"signature", "payload", "subject"}

\* the UTC clock passes
UtcTick(d) ==
    /\ UtcJumps(<<utc[1] + d[1], utc[2] + d[2]>>) <= MaxUtcJumps
    /\ utc' = <<utc[1] + d[1], utc[2] + d[2]>>
    /\ outcome' = NoOutcome
    /\ UNCHANGED <<users, tokens, clock, pc, req, last, regOk, spent, jwt>>

\* a call of create_access_token / create_refresh_token
Issue(kind, subject, expires_delta) ==
    /\ LET made == IF kind = "access"
                   THEN create_access_token(subject, expires_delta, utc)
                   ELSE create_refresh_token(subject, expires_delta, utc)
           t == [token |-> made.token, how |-> "issued", kind |-> kind,
                 subject |-> subject, expires_delta |-> expires_delta]
       IN  IF made.raised # ""
           THEN /\ outcome' = Outcome("issue", jwt, utc, made.raised, NULL, NoResponse)
                /\ UNCHANGED jwt
           ELSE /\ jwt' = t
                /\ outcome' = Outcome("issue", t, utc, "", NULL, NoResponse)
    /\ UNCHANGED <<users, tokens, clock, pc, req, last, regOk, spent, utc>>

\* an issued token altered by its holder: signed with another key, its payload
\* replaced by something that is no JSON object, or its sub claim removed
\* (the last two signed with the server's key)
Tampered(token, how) ==
    LET header == token.header
        nosub == <<[exp |-> token.payload[1].exp]>>
    IN  CASE how = "signature" ->
                 [token EXCEPT !.signature = HMAC(ATTACKER_KEY, header, token.payload)]
          [] how = "payload" ->
                 [header |-> header, payload |-> <<>>,
                  signature |-> HMAC(JWT_SECRET_KEY, header, <<>>)]
          [] how = "subject" ->
                 [header |-> header, payload |-> nosub,
                  signature |-> HMAC(JWT_SECRET_KEY, header, nosub)]

Tamper(how) ==
    /\ jwt.how = "issued"
    /\ jwt' = [jwt EXCEPT !.token = Tampered(jwt.token, how), !.how = how]
    /\ outcome' = NoOutcome
    /\ UNCHANGED <<users, tokens, clock, pc, req, last, regOk, spent, utc>>

\* a request presents the token under test: get_current_user
Validate ==
    /\ jwt.how # "none"
    /\ LET v == validate(jwt.token, utc)
       IN  outcome' = Outcome("validate", jwt, utc, v.raised, v.email,
                              get_current_user(users, jwt.token, utc))
    /\ UNCHANGED <<users, tokens, clock, pc, req, last, regOk, spent, utc, jwt>>

(***************************************************************************)
(* The service: requests of the slots `ps` for the addresses `es`.         *)
(***************************************************************************)
UserInfos(es, subs) ==
    [sub : subs, given_name : GivenNames, family_name : FamilyNames,
     email : es, email_verified : BOOLEAN]
\* the keys of the userinfo response that google() reads
ProfileKeys == {"sub", "given_name", "family_name", "email", "email_verified"}
\* the profiles that lack one of these keys
LackingOne(infos) ==
    {[f \in ProfileKeys \ {k} |-> i[f]] : i \in infos, k \in ProfileKeys}

Step(ps, es, subs) ==
    \/ \E d \in TickSteps : Tick(d)
    \/ \E p \in ps, e \in es \cup {"not-an-email", ""}, w \in RegisterPasswords, s \in Salts :
          Register(p, e, w, s)
    \/ \E p \in ps, c \in Codes, k \in Skews, ok \in BOOLEAN : RegisterToken(p, c, k, ok)
    \/ \E p \in ps, e \in Emails, w \in LoginPasswords : Login(p, e, w)
    \/ \E p \in ps, e \in Emails, w \in LoginPasswords : LoginRoute(p, e, w)
    \/ \E p \in ps, i \in UserInfos(es, subs), ok \in BOOLEAN : Google(p, i, ok)
    \/ \E p \in ps : GoogleCreate(p)
    \/ \E p \in ps : GoogleUpdate(p)
    \/ \E p \in ps, e \in es : VerifyNew(p, e)
    \/ \E p \in ps : VerifyNewRead(p)
    \/ \E p \in ps : VerifyNewDelete(p)
    \/ \E p \in ps, c \in Codes, k \in Skews : VerifyNewCreate(p, c, k)
    \/ \E p \in ps, e \in es, c \in SubmittedCodes : Verify(p, e, c)
    \/ \E p \in ps : VerifyRead(p)
    \/ \E p \in ps : VerifyUser(p)
    \/ \E p \in ps : VerifyMark(p)
    \/ \E p \in ps : VerifyDelete(p)

\* one request at a time
Next == Step({1}, {"a@x.io"}, {"g-1"})
Spec == Init /\ [][Next]_vars

\* several registrations and federated logins in flight
NextRegisterRace ==
    \/ \E p \in Procs, e \in {"a@x.io"}, w \in Passwords, s \in Salts : Register(p, e, w, s)
    \/ \E p \in Procs, c \in Codes, k \in Skews, ok \in BOOLEAN : RegisterToken(p, c, k, ok)
    \/ \E p \in Procs, i \in UserInfos({"a@x.io"}, {"g-1"}), ok \in BOOLEAN : Google(p, i, ok)
    \/ \E p \in Procs : GoogleCreate(p)
    \/ \E p \in Procs : GoogleUpdate(p)
SpecRegisterRace == Init /\ [][NextRegisterRace]_vars

\* several verification requests in flight
NextVerifyRace ==
    \/ \E d \in TickSteps : Tick(d)
    \/ \E p \in Procs, e \in {"a@x.io"}, w \in Passwords, s \in Salts : Register(p, e, w, s)
    \/ \E p \in Procs, c \in Codes, k \in Skews, ok \in BOOLEAN : RegisterToken(p, c, k, ok)
    \/ \E p \in Procs, e \in {"a@x.io"} : VerifyNew(p, e)
    \/ \E p \in Procs : VerifyNewRead(p)
    \/ \E p \in Procs : VerifyNewDelete(p)
    \/ \E p \in Procs, c \in Codes, k \in Skews : VerifyNewCreate(p, c, k)
    \/ \E p \in Procs, e \in {"a@x.io"}, c \in SubmittedCodes : Verify(p, e, c)
    \/ \E p \in Procs : VerifyRead(p)
    \/ \E p \in Procs : VerifyUser(p)
    \/ \E p \in Procs : VerifyMark(p)
    \/ \E p \in Procs : VerifyDelete(p)
SpecVerifyRace == Init /\ [][NextVerifyRace]_vars

\* the token issuer, next to registrations
NextTok ==
    \/ \E d \in UtcSteps : UtcTick(d)
    \/ \E k \in {"access", "refresh"}, s \in TokSubjects, d \in TokDeltas : Issue(k, s, d)
    \/ \E how \in Tamperings : Tamper(how)
    \/ Validate
    \/ \E e \in {"a@x.io"}, w \in Passwords, s \in Salts : Register(1, e, w, s)
    \/ \E c \in {CODE_LOW}, ok \in {TRUE} : RegisterToken(1, c, 0, ok)
SpecTok == Init /\ [][NextTok]_vars

\* federated logins one at a time, two addresses, two provider accounts
NextFederated ==
    \/ \E i \in UserInfos(Emails, Subs) \cup LackingOne(UserInfos(Emails, Subs)),
          ok \in BOOLEAN : Google(1, i, ok)
    \/ GoogleCreate(1)
    \/ GoogleUpdate(1)
SpecFederated == Init /\ [][NextFederated]_vars

\* several registrations and federated logins in flight, two addresses, two
\* provider accounts
NextUsersRace ==
    \/ \E p \in Procs, e \in Emails, w \in Passwords, s \in Salts : Register(p, e, w, s)
    \/ \E p \in Procs, c \in {CODE_LOW}, ok \in BOOLEAN : RegisterToken(p, c, 0, ok)
    \/ \E p \in Procs, i \in UserInfos(Emails, Subs), ok \in BOOLEAN : Google(p, i, ok)
    \/ \E p \in Procs : GoogleCreate(p)
    \/ \E p \in Procs : GoogleUpdate(p)
SpecUsersRace == Init /\ [][NextUsersRace]_vars

\* several registrations and requests for a new token in flight, two
\* addresses
NextTokenRows ==
    \/ \E d \in {TTLTicks} : Tick(d)
    \/ \E p \in Procs, e \in Emails, w \in Passwords, s \in Salts : Register(p, e, w, s)
    \/ \E p \in Procs, c \in {CODE_LOW} : RegisterToken(p, c, 0, TRUE)
    \/ \E p \in Procs, e \in Emails : VerifyNew(p, e)
    \/ \E p \in Procs : VerifyNewRead(p)
    \/ \E p \in Procs : VerifyNewDelete(p)
    \/ \E p \in Procs, c \in {CODE_LOW} : VerifyNewCreate(p, c, 0)
SpecTokenRows == Init /\ [][NextTokenRows]_vars

\* two addresses: registrations and requests for a new token one at a time,
\* several ConsumeVerificationToken requests in flight
NextApart ==
    \/ \E d \in {TTLTicks} : Tick(d)
    \/ \E e \in Emails, w \in Passwords, s \in Salts : Register(1, e, w, s)
    \/ \E c \in Codes : RegisterToken(1, c, 0, TRUE)
    \/ \E e \in Emails : VerifyNew(1, e)
    \/ VerifyNewRead(1)
    \/ VerifyNewDelete(1)
    \/ \E c \in Codes : VerifyNewCreate(1, c, 0)
    \/ \E p \in Procs, e \in Emails, c \in Codes : Verify(p, e, c)
    \/ \E p \in Procs : VerifyRead(p)
    \/ \E p \in Procs : VerifyUser(p)
    \/ \E p \in Procs : VerifyMark(p)
    \/ \E p \in Procs : VerifyDelete(p)
SpecApart == Init /\ [][NextApart]_vars

\* POST /auth/verify/{token} with the code of a row that
\* get_latest_verification_token returns for the user of `email`
VerifyLatest(p, email) ==
    \E i \in 1..Len(users) :
        /\ users[i].email = email
        /\ \E t \in get_latest_verification_token(tokens, users[i].id) :
              Verify(p, email, t.token)

\* One user who wants to be verified: registration, then requests for a new
\* token and ConsumeVerificationToken requests with the latest code, one at a
\* time, while time passes.  The server brings every request it accepted to
\* its response, and the user keeps making both kinds of request.
NextUnstuck ==
    \/ \E d \in TickSteps : Tick(d)
    \/ \E w \in Passwords, s \in Salts : Register(1, "a@x.io", w, s)
    \/ \E c \in Codes, ok \in BOOLEAN : RegisterToken(1, c, 0, ok)
    \/ VerifyNew(1, "a@x.io")
    \/ VerifyNewRead(1)
    \/ VerifyNewDelete(1)
    \/ \E c \in Codes : VerifyNewCreate(1, c, 0)
    \/ VerifyLatest(1, "a@x.io")
    \/ VerifyRead(1)
    \/ VerifyUser(1)
    \/ VerifyMark(1)
    \/ VerifyDelete(1)
FairUnstuck ==
    /\ WF_vars(\E c \in Codes, ok \in BOOLEAN : RegisterToken(1, c, 0, ok))
    /\ WF_vars(VerifyNewRead(1))
    /\ WF_vars(VerifyNewDelete(1))
    /\ WF_vars(\E c \in Codes : VerifyNewCreate(1, c, 0))
    /\ WF_vars(VerifyRead(1))
    /\ WF_vars(VerifyUser(1))
    /\ WF_vars(VerifyMark(1))
    /\ WF_vars(VerifyDelete(1))
    /\ SF_vars(VerifyNew(1, "a@x.io"))
    /\ SF_vars(VerifyLatest(1, "a@x.io"))
SpecUnstuck == Init /\ [][NextUnstuck]_vars /\ FairUnstuck

\* The token-authenticated routes on a database in which an operator may
\* have set the column disabled of the user (no handler writes it): the
\* table holds no user, or the user of "a@x.io", disabled or not, verified
\* or not, with or without a token row
InitDisabled ==
    /\ \E stored \in BOOLEAN, d \in BOOLEAN, v \in BOOLEAN, row \in BOOLEAN :
          /\ users = IF stored
                     THEN <<[User(1, NULL, "a@x.io",
                                  <<get_hashed_password("Passw0rd1", "salt-1")>>,
                                  "local", NULL, NULL, v) EXCEPT !.disabled = d]>>
                     ELSE <<>>
          /\ tokens = IF stored /\ row
                      THEN <<VerificationToken(1, CODE_LOW, 1, 0, 0, TRUE)>>
                      ELSE <<>>
    /\ clock = 0
    /\ pc = [p \in Procs |-> "done"]
    /\ req = [p \in Procs |-> NoRequest]
    /\ last = NotCompleted
    /\ regOk = [e \in Emails |-> 0]
    /\ spent = {}
    /\ InitTok
NextDisabled ==
    \/ \E d \in TickSteps : Tick(d)
    \/ \E e \in Emails : Me(1, e)
    \/ \E e \in Emails : VerifyNew(1, e)
    \/ VerifyNewRead(1)
    \/ VerifyNewDelete(1)
    \/ \E c \in Codes : VerifyNewCreate(1, c, 0)
    \/ \E e \in Emails, c \in SubmittedCodes : Verify(1, e, c)
    \/ VerifyRead(1)
    \/ VerifyUser(1)
    \/ VerifyMark(1)
    \/ VerifyDelete(1)
SpecDisabled == InitDisabled /\ [][NextDisabled]_vars

(***************************************************************************)
(* Properties.                                                             *)
(***************************************************************************)
\* the rows of the user table with the address e
UsersWith(us, e) == {i \in 1..Len(us) : us[i].email = e}
\* the token rows of a user, and those of them created last
RowsOf(toks, user_id) == {toks[i] : i \in {j \in 1..Len(toks) : toks[j].user_id = user_id}}
Newest(rows) == {t \in rows : \A o \in rows : o.created_at <= t.created_at}

EmailAlreadyExists == Response(HTTP_409_CONFLICT, "Email already exists.")
InvalidTokenError == Response(HTTP_400_BAD_REQUEST, "Invalid token")
TokenExpiredError == Response(HTTP_400_BAD_REQUEST, "Token expired")
TokenNotExpiredError == Response(HTTP_400_BAD_REQUEST, "Token not expired")
AlreadyVerifiedError == Response(HTTP_400_BAD_REQUEST, "User already verified")
Ok == Returned([ok |-> TRUE])

\* C1, as amended: over all interleavings of Register calls with one valid
\* e-mail address and a valid password, at most one call creates a User and
\* at most one succeeds, and the one that succeeds is the one that created
\* the User; every call that finds the address stored fails with 409 'Email
\* already exists.' and creates no User and no VerificationToken.
C1_RegisterOnce ==
    [][ /\ \A e \in Emails : Cardinality(UsersWith(users', e)) <= 1 /\ regOk'[e] <= 1
        /\ \A p \in Procs, e \in Emails, w \in Passwords, s \in Salts :
              (Register(p, e, w, s) /\ UsersWith(users, e) # {})
                  => /\ pc'[p] = "done"
                     /\ last'.response = EmailAlreadyExists
                     /\ users' = users
                     /\ tokens' = tokens
        /\ \A e \in Emails :
              regOk'[e] # regOk[e]
                  => \E p \in Procs : /\ pc[p] = "reg_token"
                                      /\ req[p].email = e
                                      /\ \E i \in UsersWith(users, e) :
                                            users[i].id = req[p].user.id
                                      /\ last'.response = Returned(UserOut(req[p].user))
      ]_vars

\* C1, witness: one Register for the address has succeeded and another one
\* has just been refused with 409
C1_Witness ==
    /\ last.op = "register"
    /\ last.response = EmailAlreadyExists
    /\ regOk[last.email] = 1

\* C1, as stated: once a Register call has created a User for an address and
\* no Register for that address is in flight, exactly one of the calls has
\* succeeded
C1_ExactlyOneSucceeds ==
    \A e \in Emails :
        ( /\ \E i \in UsersWith(users, e) : users[i].provider = "local"
          /\ \A p \in Procs : req[p].op = "register" => req[p].email # e )
            => regOk[e] = 1

\* C2, as stated: a Consume with the code a successful Register mailed, for a
\* user not verified by other means, succeeds and leaves the user verified
\* when it comes less than 300 seconds after the construction of the token,
\* and fails with 'Token expired' when it comes more than 300 seconds after
C2_ExpiryWindow ==
    (last.op = "verify" /\ last.age >= 0 /\ last.vt[1].mailed
        /\ last.response # AlreadyVerifiedError)
        => /\ last.age < TTLTicks
                => /\ last.response = Ok
                   /\ get_user_by_email(users, last.email)[1].is_verified
           /\ last.age > TTLTicks => last.response = TokenExpiredError

\* C3: a Consume whose code differs from the code of the user's latest token
\* row (the row of greatest created_at) fails with 'Invalid token' and changes
\* nothing, whatever older rows of the user are stored
C3_LatestOnly ==
    [][ \A p \in Procs :
          ( /\ pc[p] = "vfy_read"
            /\ pc'[p] # "vfy_read"
            /\ Newest(RowsOf(tokens, req[p].user_id)) # {}
            /\ \A t \in Newest(RowsOf(tokens, req[p].user_id)) : t.token # req[p].code )
              => /\ pc'[p] = "done"
                 /\ last'.op = "verify"
                 /\ last'.code = req[p].code
                 /\ last'.response = InvalidTokenError
                 /\ users' = users
                 /\ tokens' = tokens
      ]_vars

\* C3, witness: a Consume has just failed with 'Invalid token' although its
\* code is the code of an older row of the same user that is stored and not
\* expired
C3_Witness ==
    /\ last.op = "verify"
    /\ last.response = InvalidTokenError
    /\ \E i \in 1..Len(tokens) :
          /\ tokens[i].user_id = last.vt[1].user_id
          /\ tokens[i].token = last.code
          /\ tokens[i].created_at < last.vt[1].created_at
          /\ tokens[i].expires_at > round(clock)

C5_SingleUse ==
    (last.op = "verify" /\ last.response = Ok) => ~last.again

\* C6, as stated: no step sets is_verified of a user back to false
C6_VerifiedTerminal ==
    [][ \A i \in 1..Len(users) : users[i].is_verified => users'[i].is_verified ]_vars

\* C7, as stated: a login that fails because no user has the address and a
\* login that fails because the password is wrong get the same response
C7_NoEnumeration ==
    \A e1 \in Emails, e2 \in Emails, w1 \in LoginPasswords, w2 \in LoginPasswords :
        ( /\ get_user_by_email(users, e1) = <<>>
          /\ get_user_by_email(users, e2) # <<>>
          /\ ~verify_password(w2, get_user_by_email(users, e2)[1].password) )
            => login(users, e1, w1, utcnow(clock)) = login(users, e2, w2, utcnow(clock))

\* C8, as stated: POST /auth/login with the address of a local user and the
\* password of that user returns an access token and a refresh token with the
\* address as subject
C8_LoginSucceeds ==
    ( /\ last.op = "login_route"
      /\ get_user_by_email(users, last.email) # <<>>
      /\ verify_password(last.password, get_user_by_email(users, last.email)[1].password) )
        => /\ last.response.status = HTTP_200_OK
           /\ last.response.body[1].access_token.payload[1].sub = last.email
           /\ last.response.body[1].refresh_token.payload[1].sub = last.email

\* C9: get_current_user's decoding of an access token issued for a subject
\* string, at any time before the exp of the token, raises nothing and yields
\* that string
C9_RoundTrip ==
    ( /\ outcome.op = "validate"
      /\ outcome.jwt.how = "issued"
      /\ outcome.jwt.kind = "access"
      /\ outcome.jwt.subject.type = "str"
      /\ Before(outcome.at, outcome.jwt.token.payload[1].exp) )
        => /\ outcome.raised = ""
           /\ outcome.email = outcome.jwt.subject.s

\* C9, witness: an access token issued for an address has been validated
\* after the clock moved on, before its exp
C9_Witness ==
    /\ outcome.op = "validate"
    /\ outcome.jwt.how = "issued"
    /\ outcome.jwt.kind = "access"
    /\ outcome.jwt.subject = StrSubject("a@x.io")
    /\ outcome.email = "a@x.io"
    /\ outcome.at # <<0, 0>>
    /\ Before(outcome.at, outcome.jwt.token.payload[1].exp)

\* C10, as stated: a tampered token is refused as invalid, an untampered
\* access token presented at now >= exp is refused as expired, and the
\* response to the expired token differs from the response to an invalid one
C10_TwoErrorKinds ==
    outcome.op = "validate"
        => /\ outcome.jwt.how \in Tamperings => outcome.raised = "JWTError"
           /\ ( /\ outcome.jwt.how = "issued"
                /\ outcome.jwt.kind = "access"
                /\ ~Before(outcome.at, outcome.jwt.token.payload[1].exp) )
                 => /\ outcome.raised = "ExpiredSignatureError"
                    /\ \A how \in Tamperings :
                          outcome.response #
                              get_current_user(users, Tampered(outcome.jwt.token, how),
                                               outcome.at)

\* C11: a refresh token, as issued, presented where access tokens are
\* validated (get_current_user, the access secret) is refused as invalid and
\* answered with the credentials response; an access token, as issued,
\* decoded with the refresh secret is refused as invalid
C11_SeparateSecrets ==
    /\ (outcome.op = "validate" /\ outcome.jwt.how = "issued"
            /\ outcome.jwt.kind = "refresh")
          => /\ outcome.raised = "JWTError"
             /\ outcome.email = NULL
             /\ outcome.response = credentials_exception
    /\ (jwt.how = "issued" /\ jwt.kind = "access")
          => jwt_decode(jwt.token, JWT_REFRESH_SECRET_KEY, {ALGORITHM}, utc).raised
                 = "JWTError"

\* C11, witness: a refresh token issued for the address of a registered user
\* has been presented to get_current_user
C11_Witness ==
    /\ outcome.op = "validate"
    /\ outcome.jwt.how = "issued"
    /\ outcome.jwt.kind = "refresh"
    /\ outcome.jwt.subject = StrSubject("a@x.io")
    /\ get_user_by_email(users, "a@x.io") # <<>>

\* C12, as stated: a refresh token issued without an expires_delta argument
\* has exp = issue time + 7 days
C12_RefreshLifetime ==
    (outcome.op = "issue" /\ outcome.raised = "" /\ outcome.jwt.kind = "refresh"
        /\ outcome.jwt.expires_delta = NoDelta)
        => outcome.jwt.token.payload[1].exp
               = AddMinutes(outcome.at, REFRESH_TOKEN_EXPIRE_MINUTES)

\* C13, as stated: a federated login with a complete profile that found no
\* user with the address of the profile adds exactly one User, with provider
\* google, is_verified as the profile's email_verified and no password, and
\* succeeds; a federated
\* login that found a user with the address leaves the number of Users as
\* it is
C13_FederatedCreatesOnce ==
    [][ \A p \in Procs :
          /\ (pc[p] = "google_write" /\ ~req[p].exists /\ pc'[p] = "done"
                /\ DOMAIN req[p].user_info = ProfileKeys)
                => /\ Len(users') = Len(users) + 1
                   /\ users'[Len(users')].email = req[p].user_info.email
                   /\ users'[Len(users')].provider = "google"
                   /\ users'[Len(users')].is_verified = req[p].user_info.email_verified
                   /\ users'[Len(users')].password = <<>>
                   /\ last'.response.status = HTTP_200_OK
          /\ (pc[p] = "google_write" /\ req[p].exists /\ pc'[p] = "done"
                /\ DOMAIN req[p].user_info = ProfileKeys)
                => /\ Len(users') = Len(users)
                   /\ last'.response.status = HTTP_200_OK
      ]_vars

\* C14: no two rows of the user table have the same email, and no two have
\* the same sub other than NULL
C14_UniqueEmailAndSub ==
    \A i \in 1..Len(users), j \in 1..Len(users) :
        i # j => /\ users[i].email # users[j].email
                 /\ users[i].sub # NULL => users[i].sub # users[j].sub

\* C14, witness: two users are stored, one of them with a provider account,
\* and an INSERT has just been refused as a duplicate
C14_Witness ==
    /\ Len(users) = 2
    /\ \E i \in 1..Len(users) : users[i].sub # NULL
    /\ "Duplicate entry" \in last.response.error

\* C15, as stated: a Register whose email is absent, whose password is
\* absent, whose email is not an e-mail address or whose password does not
\* meet the policy fails with status 400, and stores no User, stores no
\* token and sends no e-mail
C15_ValidationErrors ==
    [][ (last'.op = "register"
            /\ RegisterChecks(last'.email, last'.password) # NoResponse)
          => /\ last'.response.status = HTTP_400_BAD_REQUEST
             /\ users' = users
             /\ tokens' = tokens
             /\ last'.sent = <<>>
      ]_vars

\* C16: the step of a Register that stores the User adds exactly one row,
\* local, not verified, with the address submitted, and no token; the step
\* that ends the Register with success adds no User and exactly one token
\* row, owned by that User, and exactly one e-mail has been delivered, to the
\* address submitted and carrying the code of that row
C16_RegisterEffects ==
    [][ \A p \in Procs :
          /\ (pc[p] = "done" /\ pc'[p] = "reg_token")
                => /\ Len(users') = Len(users) + 1
                   /\ SubSeq(users', 1, Len(users)) = users
                   /\ users'[Len(users')] = req'[p].user
                   /\ req'[p].user.email = req'[p].email
                   /\ req'[p].user.provider = "local"
                   /\ req'[p].user.is_verified = FALSE
                   /\ tokens' = tokens
          /\ (pc[p] = "reg_token" /\ last'.response.status = HTTP_200_OK)
                => /\ users' = users
                   /\ Len(tokens') = Len(tokens) + 1
                   /\ SubSeq(tokens', 1, Len(tokens)) = tokens
                   /\ tokens'[Len(tokens')].user_id = req[p].user.id
                   /\ last'.response.body = <<UserOut(req[p].user)>>
                   /\ last'.sent = <<[recipient |-> req[p].email,
                                      code |-> tokens'[Len(tokens')].token]>>
      ]_vars

\* C16, witness: a Register has succeeded, its User is stored unverified with
\* one token row, and the one e-mail delivered carries the code of that row
C16_Witness ==
    /\ last.op = "register" /\ last.response.status = HTTP_200_OK
    /\ Len(last.sent) = 1
    /\ \E i \in UsersWith(users, last.email) :
          /\ users[i].provider = "local" /\ ~users[i].is_verified
          /\ \E t \in RowsOf(tokens, users[i].id) :
                RowsOf(tokens, users[i].id) = {t} /\ last.sent[1].code = t.token

\* C17, as stated: a RequestNewVerificationToken that has succeeded has
\* delivered an e-mail to the user's address carrying the code of the row
\* it created
C17_ResendIsMailed ==
    (last.op = "verify_new" /\ last.response = Ok)
        => \E i \in UsersWith(users, last.email) :
              \E t \in Newest(RowsOf(tokens, users[i].id)) :
                  last.sent = <<[recipient |-> last.email, code |-> t.token]>>

\* C18: the step of a Consume that marks the user sets is_verified on the
\* user's row and leaves the token table alone; the step after it, which
\* ends the Consume with success, finds the user verified, deletes every
\* token row of the user and no other row, and returns ok
C18_VerifyThenDelete ==
    [][ \A p \in Procs :
          /\ (pc[p] = "vfy_mark" /\ pc'[p] = "vfy_delete")
                => /\ get_user_by_id(users', req[p].vt[1].user_id)[1].is_verified
                   /\ tokens' = tokens
          /\ (pc[p] = "vfy_delete" /\ pc'[p] = "done")
                => /\ get_user_by_id(users, req[p].vt[1].user_id)[1].is_verified
                   /\ users' = users
                   /\ RowsOf(tokens', req[p].vt[1].user_id) = {}
                   /\ last'.deleted = Cardinality(RowsOf(tokens, req[p].vt[1].user_id))
                   /\ Len(tokens') = Len(tokens) - last'.deleted
                   /\ last'.response = Ok
      ]_vars

\* C18, witness: a Consume has returned ok with no other request in flight,
\* it deleted at least two rows, the one it read and an older or equally old
\* one, and the user, verified, has no row left
C18_Witness ==
    /\ last.op = "verify" /\ last.response = Ok
    /\ last.deleted >= 2
    /\ \A p \in Procs : pc[p] = "done"
    /\ \E i \in UsersWith(users, last.email) :
          users[i].is_verified /\ RowsOf(tokens, users[i].id) = {}

MissingParameterError == Response(HTTP_400_BAD_REQUEST, "Token and user_id are required")
NoVerificationTokenError == Response(HTTP_400_BAD_REQUEST, "User has no verification token")
ConsumeErrors ==
    {MissingParameterError, NoVerificationTokenError, InvalidTokenError,
     TokenExpiredError, AlreadyVerifiedError}
\* the first failure that applies, in the order of the claim, to the Consume
\* just completed by the stored user u: no code; no row of u; the row read
\* has another code; the row read had expired when it was checked; u is
\* verified
FirstConsumeError(u) ==
    IF last.code = 0 THEN MissingParameterError
    ELSE IF RowsOf(tokens, u.id) = {} THEN NoVerificationTokenError
    ELSE IF last.vt[1].token # last.code THEN InvalidTokenError
    ELSE IF last.age >= 0 /\ last.vt[1].expires_at < round(last.vt[1].born + last.age)
    THEN TokenExpiredError
    ELSE IF u.is_verified THEN AlreadyVerifiedError
    ELSE Ok

\* C19: with one request at a time, a Consume that fails with one of
\* MissingParameter, NoToken, InvalidToken, TokenExpired, AlreadyVerified
\* fails with the first of them, in this order, that applies; so a verified
\* user with no rows gets NoToken and a wrong code for an expired row gets
\* InvalidToken; and a Consume that returns ok had none of them
C19_FailureOrder ==
    (last.op = "verify" /\ last.response \in ConsumeErrors \cup {Ok})
        => \E i \in UsersWith(users, last.email) :
              IF last.response = Ok
              THEN /\ last.code # 0 /\ last.vt[1].token = last.code
                   /\ last.vt[1].expires_at >= round(last.vt[1].born + last.age)
              ELSE /\ last.response = FirstConsumeError(users[i])
                   /\ last.response = NoVerificationTokenError => last.vt = <<>>
                   /\ last.response \in {InvalidTokenError, TokenExpiredError,
                                         AlreadyVerifiedError}
                         => last.vt[1] \in Newest(RowsOf(tokens, users[i].id))

\* C19, witness: a Consume with a wrong code for a row that has expired has
\* failed with InvalidToken
C19_Witness ==
    /\ last.op = "verify" /\ last.response = InvalidTokenError
    /\ last.vt[1].token # last.code
    /\ last.vt[1].expires_at < round(clock)

\* C20, as stated: a Consume with the right code whose expiry check reads a
\* time now >= expires_at, equality included, fails with TokenExpired
C20_ClosedBoundary ==
    (last.op = "verify" /\ last.age >= 0
        /\ round(last.vt[1].born + last.age) >= last.vt[1].expires_at)
        => last.response = TokenExpiredError

\* C21: a RequestNewVerificationToken for a stored user whose is_verified is
\* true ends at once with "User already verified" and changes no token row
\* and no user; no request goes on to the reading of the rows for a user who
\* is verified
C21_VerifiedGetsNoNewToken ==
    [][ \A p \in Procs :
          /\ (pc[p] = "done" /\ last'.op = "verify_new" /\ req'[p] = NoRequest
                /\ (\A q \in Procs \ {p} : pc'[q] = pc[q] /\ pc[q] = "done")
                /\ \E i \in UsersWith(users, last'.email) : users[i].is_verified)
                => /\ last'.response = AlreadyVerifiedError
                   /\ tokens' = tokens
                   /\ users' = users
          /\ (pc[p] = "done" /\ pc'[p] = "new_read")
                => ~get_user_by_id(users, req'[p].user_id)[1].is_verified
      ]_vars

\* C21, witness: a RequestNewVerificationToken has failed with "User already
\* verified" for a verified user who has a token row
C21_Witness ==
    /\ last.op = "verify_new" /\ last.response = AlreadyVerifiedError
    /\ \E i \in UsersWith(users, last.email) :
          users[i].is_verified /\ RowsOf(tokens, users[i].id) # {}

\* the failure google() answers with, whatever the exception
ExternalAuthError(r) ==
    /\ r.status = HTTP_400_BAD_REQUEST /\ r.detail = "Something went wrong"
    /\ r.body = <<>>

\* C22, as stated: with one request at a time, a federated Login whose
\* exchange with the identity provider fails, or whose profile lacks one of
\* sub, given_name, family_name, email, email_verified, fails with
\* ExternalAuthError, returns no tokens and leaves the user table as it was
C22_ExchangeFailure ==
    [][ /\ ((\A q \in Procs : pc[q] = "done") /\ last'.op = "google")
              => ExternalAuthError(last'.response) /\ users' = users
        /\ \A p \in Procs :
              (pc[p] = "google_write" /\ pc'[p] = "done"
                  /\ DOMAIN req[p].user_info # ProfileKeys)
                  => ExternalAuthError(last'.response) /\ users' = users
      ]_vars

\* the row of the user that was stored last: rows are appended to the table
\* and a DELETE keeps the order of the others
CreatedLast(toks, user_id) ==
    LET own == {j \in 1..Len(toks) : toks[j].user_id = user_id}
    IN  toks[CHOOSE j \in own : \A k \in own : k <= j]

\* C23, as stated: when a user has two or more token rows, none of them
\* expired, the step of a Consume that reads the latest row rejects the code
\* submitted with InvalidToken exactly when it is not the code of the row
\* created last
C23_LastCreatedWins ==
    [][ \A p \in Procs :
          (/\ pc[p] = "vfy_read" /\ pc'[p] # pc[p]
           /\ Cardinality(RowsOf(tokens, req[p].user_id)) >= 2
           /\ \A r \in RowsOf(tokens, req[p].user_id) : r.expires_at > round(clock))
              => ((pc'[p] = "done" /\ last'.response = InvalidTokenError)
                     <=> req[p].code # CreatedLast(tokens, req[p].user_id).token)
      ]_vars

\* C24, as stated: for every stored user, get_latest_verification_token
\* finds no row exactly when the user has no token row, and otherwise the
\* one row it can return is the row of the user created last, tokens created
\* within the same second included
C24_LatestIsCreatedLast ==
    \A i \in 1..Len(users) :
        IF RowsOf(tokens, users[i].id) = {}
        THEN LatestChoices(tokens, users[i].id) = {<<>>}
        ELSE LatestChoices(tokens, users[i].id) = {<<CreatedLast(tokens, users[i].id)>>}

\* C25, as stated: every stored token row has expires_at = created_at + 300
C25_FixedWindow ==
    \A i \in 1..Len(tokens) : tokens[i].expires_at = tokens[i].created_at + TOKEN_TTL

\* C26: every step that calls create_verification_token for a user (the end
\* of a Register, the end of a RequestNewVerificationToken) appends exactly
\* one row, owned by that user, keeps every row stored before as it was and
\* in its place, and leaves the user table alone
C26_CreateAddsOneRow ==
    [][ \A p \in Procs :
          (pc[p] \in {"reg_token", "new_create"} /\ pc'[p] = "done")
              => LET user_id == IF pc[p] = "reg_token" THEN req[p].user.id
                                ELSE req[p].user_id
                 IN  /\ Len(tokens') = Len(tokens) + 1
                     /\ SubSeq(tokens', 1, Len(tokens)) = tokens
                     /\ tokens'[Len(tokens')].user_id = user_id
                     /\ users' = users
      ]_vars

\* C26, witness: a request has just stored a row for a user who had a row
\* already, while another user has a row too, and all three are stored
C26_Witness ==
    /\ last.op \in {"register", "verify_new"} /\ last.response.status = HTTP_200_OK
    /\ Len(tokens) >= 3
    /\ \E i \in 1..(Len(tokens) - 1) : tokens[i].user_id = tokens[Len(tokens)].user_id
    /\ \E i \in 1..(Len(tokens) - 1) : tokens[i].user_id # tokens[Len(tokens)].user_id
    /\ \E i \in UsersWith(users, last.email) : users[i].id = tokens[Len(tokens)].user_id

Rows(toks) == {toks[i] : i \in 1..Len(toks)}
\* delete_user_verification_tokens applied to the table `toks` for user_id
\* removes the rows of the user and no other row, keeps the others in their
\* order, gives the same table when applied once more, and gives `toks` when
\* the user has no row
DeletesOwnRowsOnly(toks, user_id) ==
    LET once == delete_user_verification_tokens(toks, user_id)
        twice == delete_user_verification_tokens(once, user_id)
    IN  /\ RowsOf(once, user_id) = {}
        /\ Rows(once) = Rows(toks) \ RowsOf(toks, user_id)
        /\ Len(once) = Len(toks) - Cardinality(RowsOf(toks, user_id))
        /\ \A i, j \in 1..Len(once) :
              i < j => \E k, l \in 1..Len(toks) :
                          k < l /\ toks[k] = once[i] /\ toks[l] = once[j]
        /\ twice = once
        /\ RowsOf(toks, user_id) = {} => once = toks

\* C27: in every state that has a successor, for every stored user and for
\* an id that no user has, delete_user_verification_tokens removes the rows
\* of that user and no other, is idempotent and changes nothing when the
\* user has no row; and the step of a RequestNewVerificationToken that calls
\* it leaves exactly the rows of the other users, the user table untouched
C27_DeleteAllForUser ==
    [][ /\ \A user_id \in {users[i].id : i \in 1..Len(users)} \cup {0} :
              DeletesOwnRowsOnly(tokens, user_id)
        /\ \A p \in Procs :
              (pc[p] = "new_delete" /\ pc'[p] = "new_create")
                  => /\ Rows(tokens') = Rows(tokens) \ RowsOf(tokens, req[p].user_id)
                     /\ users' = users
      ]_vars

\* C27, witness: a RequestNewVerificationToken has deleted the rows of its
\* user, who had a row, and the rows of another user are still stored
C27_Witness ==
    \E p \in Procs :
        /\ pc[p] = "new_create" /\ req[p].old # <<>>
        /\ RowsOf(tokens, req[p].user_id) = {}
        /\ tokens # <<>>

\* C28: the step of a federated Login that updates the user found for the
\* address of the profile sets given_name, family_name and is_verified of
\* that row from the profile and changes no other column of it (id, email,
\* sub, provider, password, disabled), no other row of the user table and no
\* token row
C28_UpdateFrame ==
    [][ \A p \in Procs :
          (pc[p] = "google_write" /\ req[p].exists /\ pc'[p] = "done"
              /\ last'.response.status = HTTP_200_OK)
              => /\ Len(users') = Len(users)
                 /\ \A i \in 1..Len(users) :
                       IF users[i].email = req[p].user_info.email
                       THEN /\ users'[i].given_name = req[p].user_info.given_name
                            /\ users'[i].family_name = req[p].user_info.family_name
                            /\ users'[i].is_verified = req[p].user_info.email_verified
                            /\ \A f \in {"id", "email", "sub", "provider", "password",
                                         "disabled"} : users'[i][f] = users[i][f]
                       ELSE users'[i] = users[i]
                 /\ tokens' = tokens
      ]_vars

\* C28, witness: a federated Login has updated a local user, who keeps the
\* password, the provider and the empty sub, while another user and a token
\* row are stored
C28_Witness ==
    /\ last.op = "google" /\ last.response.status = HTTP_200_OK
    /\ Len(users) = 2 /\ tokens # <<>>
    /\ \E i \in UsersWith(users, last.email) :
          /\ users[i].provider = "local" /\ users[i].password # <<>>
          /\ users[i].sub = NULL
          /\ users[i].given_name \in GivenNames /\ users[i].is_verified

\* C29: with one request at a time, the step that ends a Register with a
\* failure of the e-mail dispatch answers with a failure, has stored the token
\* row of the user and leaves the user stored; and a Register with a valid
\* address and password for an address that a user has fails with "Email
\* already exists." (409) and changes nothing
C29_NoRollback ==
    [][ /\ \A p \in Procs :
              (pc[p] = "reg_token" /\ pc'[p] = "done"
                  /\ last'.response.status # HTTP_200_OK)
                  => /\ last'.response.status = HTTP_400_BAD_REQUEST
                     /\ last'.sent = <<>>
                     /\ users' = users
                     /\ get_user_by_email(users', req[p].email) = <<req[p].user>>
                     /\ Len(tokens') = Len(tokens) + 1
                     /\ SubSeq(tokens', 1, Len(tokens)) = tokens
                     /\ tokens'[Len(tokens')].user_id = req[p].user.id
        /\ ((\A q \in Procs : pc[q] = "done") /\ last'.op = "register"
                /\ RegisterChecks(last'.email, last'.password) = NoResponse
                /\ UsersWith(users, last'.email) # {})
              => /\ last'.response = EmailAlreadyExists
                 /\ users' = users /\ tokens' = tokens
      ]_vars

\* C29, witness: a Register has failed with "Email already exists." for an
\* address for which no Register ever succeeded: the local user and the
\* token row, never mailed, that a Register with a failed dispatch left
C29_Witness ==
    /\ last.op = "register" /\ last.response = EmailAlreadyExists
    /\ regOk[last.email] = 0
    /\ \E i \in UsersWith(users, last.email) :
          /\ users[i].provider = "local" /\ ~users[i].is_verified
          /\ \E t \in RowsOf(tokens, users[i].id) : ~t.mailed

\* C30, as stated: no failure response of a Register or of a federated Login
\* carries text of the exception that caused it
C30_NoExceptionText ==
    (last.op \in {"register", "google"} /\ last.response.status # HTTP_200_OK)
        => last.response.error = {}

\* C31: a step after which a token row stored before is no longer stored is
\* either the step that ends a ConsumeVerificationToken with success, or
\* the deleting step of a RequestNewVerificationToken that read a latest row
\* which had expired; in both cases the rows that go are the rows of the
\* user of the request.  So the passing of time, Register, Login, federated
\* Login and every failing operation remove no row
C31_RowsRemovedOnlyBy ==
    [][ (Rows(tokens) \ Rows(tokens') # {})
          => \E p \in Procs :
                /\ \/ /\ pc[p] = "vfy_delete" /\ pc'[p] = "done"
                      /\ last'.op = "verify" /\ last'.response = Ok
                      /\ Rows(tokens) \ Rows(tokens') = RowsOf(tokens, req[p].vt[1].user_id)
                   \/ /\ pc[p] = "new_delete" /\ pc'[p] = "new_create"
                      /\ req[p].old # <<>>
                      /\ req[p].old[1].expires_at <= round(clock)
                      /\ Rows(tokens) \ Rows(tokens') = RowsOf(tokens, req[p].user_id)
      ]_vars

\* C31, witness: a ConsumeVerificationToken has failed with TokenExpired and
\* the expired row it read is still stored
C31_Witness ==
    /\ last.op = "verify" /\ last.response = TokenExpiredError
    /\ last.vt[1] \in Rows(tokens)
    /\ last.vt[1].expires_at < round(clock)

IdsAndEmails(us) == {<<us[i].id, us[i].email>> : i \in 1..Len(us)}

\* C32: every step keeps every (id, email) pair of the user table, and after
\* every step an access token issued before it for the address of a stored
\* user still names a stored user: get_current_user accepts it
C32_UsersStay ==
    [][ /\ IdsAndEmails(users) \subseteq IdsAndEmails(users')
        /\ \A i \in 1..Len(users) :
              get_current_user(users', Bearer(users[i].email), utcnow(clock')) = NoResponse
      ]_vars

\* C32, witness: a federated Login has updated the record of a user who
\* registered with a password, and the record has the id and the address it
\* had
C32_Witness ==
    /\ last.op = "google" /\ last.response.status = HTTP_200_OK
    /\ \E i \in UsersWith(users, last.email) :
          /\ users[i].id = i /\ users[i].provider = "local"
          /\ users[i].given_name \in GivenNames

IncorrectEmailOrPassword == Response(HTTP_404_NOT_FOUND, "Incorrect email or password")

\* C33: for every stored user without a password hash and every password,
\* auth_controller.login answers "Incorrect email or password" (404) with no
\* tokens; and a call of it that has completed for such a user has got this
\* answer
C33_FederatedOnlyLogin ==
    /\ \A i \in 1..Len(users), w \in LoginPasswords \cup {""} :
          users[i].password = <<>>
              => login(users, users[i].email, w, utcnow(clock)) = IncorrectEmailOrPassword
    /\ (last.op = "login"
          /\ \E i \in UsersWith(users, last.email) : users[i].password = <<>>)
          => last.response = IncorrectEmailOrPassword /\ last.response.body = <<>>

\* C33, witness: a login for the address of a user created by a federated
\* Login, who has no password hash, has completed with this failure
C33_Witness ==
    /\ last.op = "login" /\ last.response = IncorrectEmailOrPassword
    /\ \E i \in UsersWith(users, last.email) :
          users[i].password = <<>> /\ users[i].provider = "google"

InactiveUser == Response(HTTP_400_BAD_REQUEST, "Inactive user")
TokenAuthenticated == {"verify_new", "verify", "me"}

\* C34: with one request at a time, a RequestNewVerificationToken, a
\* ConsumeVerificationToken or a current-user lookup is answered "Inactive
\* user" when the user of the bearer token is stored with disabled = true,
\* and "Could not validate credentials" when no user has the address of the
\* token; in both cases it ends at once and changes neither table; so no
\* request goes past the dependency for such a caller
C34_DependencyRejects ==
    [][ /\ ((\A q \in Procs : pc[q] = "done") /\ last'.op \in TokenAuthenticated
              /\ \E i \in UsersWith(users, last'.email) : users[i].disabled)
              => /\ last'.response = InactiveUser
                 /\ users' = users /\ tokens' = tokens
        /\ ((\A q \in Procs : pc[q] = "done") /\ last'.op \in TokenAuthenticated
              /\ UsersWith(users, last'.email) = {})
              => /\ last'.response = credentials_exception
                 /\ users' = users /\ tokens' = tokens
        /\ \A p \in Procs :
              (pc[p] = "done" /\ pc'[p] # "done")
                  => \E i \in UsersWith(users, req'[p].email) : ~users[i].disabled
      ]_vars

\* C34, witness: a ConsumeVerificationToken with the code of the stored row
\* of a disabled user has been answered "Inactive user", and the row is
\* stored and the user unverified as before
C34_Witness ==
    /\ last.op = "verify" /\ last.response = InactiveUser
    /\ \E i \in UsersWith(users, last.email) :
          /\ users[i].disabled /\ ~users[i].is_verified
          /\ \E t \in RowsOf(tokens, users[i].id) : t.token = last.code

\* C35: the step that ends a ConsumeVerificationToken with one of the five
\* failures changes neither table, and neither does any step of a
\* ConsumeVerificationToken before the one that marks the user
C35_FailedConsumeChangesNothing ==
    [][ /\ (last'.op = "verify" /\ last'.response \in ConsumeErrors)
              => users' = users /\ tokens' = tokens
        /\ \A p \in Procs :
              (pc'[p] # pc[p] /\ (pc'[p] = "vfy_read" \/ pc[p] \in {"vfy_read", "vfy_user"}))
                  => users' = users /\ tokens' = tokens
      ]_vars

\* C35, witness: a ConsumeVerificationToken with a wrong code has failed with
\* InvalidToken, and the row it was compared with is still stored, not
\* expired, for a user who is not verified
C35_Witness ==
    /\ last.op = "verify" /\ last.response = InvalidTokenError
    /\ last.vt[1] \in Rows(tokens)
    /\ last.vt[1].expires_at >= round(clock)
    /\ \E i \in UsersWith(users, last.email) : ~users[i].is_verified

\* the users other than those of the address e, and the token rows of the
\* users other than those of the address e
OthersUsers(us, e) == {us[i] : i \in {j \in 1..Len(us) : us[j].email # e}}
OthersRows(us, toks, e) ==
    {t \in Rows(toks) : \A i \in UsersWith(us, e) : t.user_id # us[i].id}
VerificationOps == {"verify", "verify_new"}

\* C36: a step of a RequestNew or of a ConsumeVerificationToken made for the
\* address a leaves every other user's record and every other user's token
\* rows as they were; a ConsumeVerificationToken whose code is on none of a's
\* rows, while a has rows, is answered InvalidToken, whoever else owns a row
\* with that code; one that succeeds was compared with a row of a that
\* carries the submitted code
C36_VerificationApart ==
    [][ /\ \A p \in Procs :
              (pc'[p] # pc[p] /\ (req[p].op \in VerificationOps \/ req'[p].op \in VerificationOps))
                  => LET a == IF req[p].op \in VerificationOps THEN req[p].email
                                                                 ELSE req'[p].email
                     IN  /\ Len(users') = Len(users)
                         /\ OthersUsers(users', a) = OthersUsers(users, a)
                         /\ OthersRows(users', tokens', a) = OthersRows(users, tokens, a)
        /\ last'.op \in VerificationOps
              => /\ Len(users') = Len(users)
                 /\ OthersUsers(users', last'.email) = OthersUsers(users, last'.email)
                 /\ OthersRows(users', tokens', last'.email)
                        = OthersRows(users, tokens, last'.email)
        /\ \A p \in Procs :
              ( /\ pc[p] = "vfy_read" /\ pc'[p] # pc[p]
                /\ RowsOf(tokens, req[p].user_id) # {}
                /\ \A t \in RowsOf(tokens, req[p].user_id) : t.token # req[p].code )
                  => last'.response = InvalidTokenError
        /\ (last'.op = "verify" /\ last'.response = Ok)
              => /\ last'.vt[1].token = last'.code
                 /\ \E i \in UsersWith(users, last'.email) : users[i].id = last'.vt[1].user_id
      ]_vars

\* C36, witness: a ConsumeVerificationToken for one user with the code of the
\* unexpired row of another user, which is not the code of its own row, has
\* been answered InvalidToken, and the other user is still unverified and
\* still owns that row
C36_Witness ==
    /\ last.op = "verify" /\ last.response = InvalidTokenError
    /\ last.vt[1].token # last.code
    /\ \E t \in Rows(tokens), i \in 1..Len(users) :
          /\ t.user_id # last.vt[1].user_id
          /\ users[i].id = t.user_id /\ ~users[i].is_verified
          /\ users[i].email # last.email
          /\ t.token = last.code
          /\ t.expires_at >= round(clock)
          /\ t \in get_latest_verification_token(tokens, t.user_id)

\* C37: in every state in which no request is in progress, a user whose
\* is_verified is true owns no verification-token row
C37_VerifiedOwnsNoRows ==
    (\A p \in Procs : pc[p] = "done")
        => \A i \in 1..Len(users) :
              users[i].is_verified => RowsOf(tokens, users[i].id) = {}

\* the number of token rows whose user_id is `user_id`
RowCount(toks, user_id) == Cardinality({j \in 1..Len(toks) : toks[j].user_id = user_id})

\* C38: with requests served one at a time, in every state in which no
\* request is in progress every user owns at most one verification-token row
C38_AtMostOneRow ==
    (\A p \in Procs : pc[p] = "done")
        => \A i \in 1..Len(users) : RowCount(tokens, users[i].id) <= 1

\* C38, witness: a RequestNew that found an expired row has succeeded, and
\* the user owns one row, which is not the row it found
C38_Witness ==
    /\ \A p \in Procs : pc[p] = "done"
    /\ last.op = "verify_new" /\ last.response = Ok
    /\ last.vt # <<>>
    /\ \E i \in UsersWith(users, last.email) :
          /\ RowCount(tokens, users[i].id) = 1
          /\ last.vt[1] \notin Rows(tokens)

\* the stored user of "a@x.io" is not disabled and not verified; is verified
Unverified ==
    \E i \in UsersWith(users, "a@x.io") : ~users[i].disabled /\ ~users[i].is_verified
Verified ==
    \E i \in UsersWith(users, "a@x.io") : users[i].is_verified

====
